---- MODULE Spec2Model ----
(***************************************************************************)
(* Manga Library: the two storage backends (DataStore over SQLite,         *)
(* CSVDataStore over two CSV files), the cover files of IMAGES_DIR, the    *)
(* migration between the backends and the full backup, as a state machine. *)
(* One behaviour is one run of the application on one home directory.      *)
(***************************************************************************)
EXTENDS Integers, Sequences, FiniteSets, TLC

VARIABLES
    store,       \* the active backend chosen by main(): "sqlite" or "csv"
    db,          \* the SQLite file: [books, wishlist], each a set of rows
    csv,         \* the CSV files: [books_file, wish_file], each a sequence of rows
    fs,          \* the image files on disk: path -> content
    archive,     \* the zip written by the last full export
    last,        \* the last call made on the storage contract and what it returned
    issued,      \* per backend and kind, the ids the add operations have returned
    steps,       \* the number of operations the user has run
    dir,         \* the books file and its .tmp sibling: name -> inode, 0 if absent
    inode,       \* the content of every inode ever created, as its lines
    proc,        \* per application process, its position inside a CSV operation
    wrote        \* the row lists that have been handed to a write of the books file

vars == <<store, db, csv, fs, archive, last, issued, steps, dir, inode, proc, wrote>>

----------------------------------------------------------------------------
(* Bounds of the model *)

\* ids handed out by the model stay in 1..MaxId (adds are disabled beyond it)
MaxId == 2

\* a run is at most MaxSteps operations long
MaxSteps == 4

----------------------------------------------------------------------------
(* Values *)

\* Titles are strings, kept as their sequence of character codes so that
\* ORDER BY title (bytewise) and str.lower() can be computed.
Titles == { <<>>, <<97>>, <<66>> }      \* "", "a", "B"
Authors == {"au"}
Years == {"y1"}
Notes == {"n"}
Kinds == {"book", "wish"}
Stores == {"sqlite", "csv"}

\* A path is [dir, stem, ext]; Path.suffix is ext, Path.name is stem \o ext.
EmptyStr == [dir |-> "", stem |-> "", ext |-> ""]         \* the str ''
None == [dir |-> "None", stem |-> "", ext |-> ""]         \* Python None / SQL NULL
Truthy(p) == p # EmptyStr /\ p # None

UserX == [dir |-> "user", stem |-> "x", ext |-> ".png"]
UserY == [dir |-> "user", stem |-> "y", ext |-> ".jpg"]
UserMissing == [dir |-> "user", stem |-> "missing", ext |-> ".png"]
\* the source paths a caller hands to the set-cover operations
SrcPaths == {UserX, UserY, UserMissing, EmptyStr}
\* the files of the user that exist, with their content
UserFiles == (UserX :> 1) @@ (UserY :> 2)

Digits == <<"0", "1", "2", "3", "4", "5", "6", "7", "8", "9">>

RECURSIVE StrOf(_)
\* str(n) of a natural number
StrOf(n) == IF n < 10 THEN Digits[n + 1]
            ELSE StrOf(n \div 10) \o Digits[(n % 10) + 1]

\* int(s): the number s is the decimal form of; -1 stands for ValueError
IntOf(s) == IF \E n \in 0..(MaxId + 1) : StrOf(n) = s
            THEN CHOOSE n \in 0..(MaxId + 1) : StrOf(n) = s
            ELSE -1

\* str.lower() on character codes
LowerChar(c) == IF c >= 65 /\ c <= 90 THEN c + 32 ELSE c
Lower(t) == [i \in 1..Len(t) |-> LowerChar(t[i])]

RECURSIVE StrLess(_, _)
\* s < t for strings, comparing code by code (Python str and SQLite BINARY)
StrLess(s, t) ==
    IF t = <<>> THEN FALSE
    ELSE IF s = <<>> THEN TRUE
    ELSE IF s[1] # t[1] THEN s[1] < t[1]
    ELSE StrLess(Tail(s), Tail(t))

SetMax(S) == CHOOSE m \in S : \A x \in S : x <= m

----------------------------------------------------------------------------
(* Files: IMAGES_DIR, shutil.copy, the Pillow re-encoding *)

ImagePath(kind, idstr, ext) ==
    [dir |-> "IMAGES_DIR", stem |-> kind \o "_" \o idstr, ext |-> ext]

Exists(f, p) == p \in DOMAIN f

\* the bytes Pillow writes for an image of bytes c: thumbnail + save re-encode
\* the picture (contents 1, 2 are originals, 3, 4 their re-encodings)
Transcode(c) == IF c <= 2 THEN c + 2 ELSE c

\* shutil.copy(src, dest): SameFileError when both name the same file
shutil_copy(f, src, dest) ==
    IF src = dest THEN [fs |-> f, raised |-> TRUE]
    ELSE [fs |-> (dest :> f[src]) @@ f, raised |-> FALSE]

\* lines 177-185 / 216-224: try Pillow (mode "pil_ok", "pil_fail") or copy
\* (mode "copy": no Pillow or resizing off); on any exception copy.
StoreImage(f, mode, src, dest) ==
    IF mode = "pil_ok"
    THEN [fs |-> (dest :> Transcode(f[src])) @@ f, raised |-> FALSE]
    ELSE shutil_copy(f, src, dest)

PilModes == {"pil_ok", "pil_fail", "copy"}
\* DataStore goes through Pillow when it is there and resizing is on;
\* CSVDataStore only ever copies
ModesOf(st) == IF st = "sqlite" THEN PilModes ELSE {"copy"}

----------------------------------------------------------------------------
(* DataStore: the SQLite backend *)

\* INTEGER PRIMARY KEY without AUTOINCREMENT: the new rowid is the largest
\* rowid of the table plus one, 1 for an empty table
Rowid(rows) == IF rows = {} THEN 1 ELSE SetMax({r.id : r \in rows}) + 1

DataStore_add_book(d, title, author, year, notes) ==
    LET nid == Rowid(d.books)
        row == [id |-> nid, title |-> title, author |-> author, year |-> year,
                notes |-> notes, cover |-> None]
    IN [db |-> [d EXCEPT !.books = @ \cup {row}], ret |-> nid]

DataStore_add_wishlist(d, title, notes) ==
    LET nid == Rowid(d.wishlist)
        row == [id |-> nid, title |-> title, notes |-> notes, cover |-> None]
    IN [db |-> [d EXCEPT !.wishlist = @ \cup {row}], ret |-> nid]

DataStore_delete_book(d, book_id) ==
    [d EXCEPT !.books = {r \in @ : r.id # book_id}]

DataStore_delete_wishlist(d, wi_id) ==
    [d EXCEPT !.wishlist = {r \in @ : r.id # wi_id}]

\* ORDER BY title: the column has the default BINARY collation; rows of equal
\* title come in rowid order
OrderByTitle(r, o) == StrLess(r.title, o.title) \/ (r.title = o.title /\ r.id < o.id)

RECURSIVE SelectOrdered(_)
\* the rows of a table as the sequence SELECT ... ORDER BY title returns
SelectOrdered(rows) ==
    IF rows = {} THEN <<>>
    ELSE LET first == CHOOSE r \in rows : \A o \in rows \ {r} : OrderByTitle(r, o)
         IN <<first>> \o SelectOrdered(rows \ {first})

\* the tuple cur.fetchall() gives for a row of books / of wishlist
BookTuple(r) == <<r.id, r.title, r.author, r.year, r.notes, r.cover>>
WishTuple(r) == <<r.id, r.title, r.notes, r.cover>>

RECURSIVE BookTuples(_)
BookTuples(s) == IF s = <<>> THEN <<>> ELSE <<BookTuple(s[1])>> \o BookTuples(Tail(s))

RECURSIVE WishTuples(_)
WishTuples(s) == IF s = <<>> THEN <<>> ELSE <<WishTuple(s[1])>> \o WishTuples(Tail(s))

DataStore_list_books(d) == BookTuples(SelectOrdered(d.books))

DataStore_list_wishlist(d) == WishTuples(SelectOrdered(d.wishlist))

\* faulty variant: the INSERT of the move leaves the cover column out
DataStore_move_without_cover(d, wi_id, author, year) ==
    IF ~ \E r \in d.wishlist : r.id = wi_id
    THEN [db |-> d, ret |-> FALSE]
    ELSE LET w == CHOOSE r \in d.wishlist : r.id = wi_id
             row == [id |-> Rowid(d.books), title |-> w.title, author |-> author,
                     year |-> year, notes |-> w.notes, cover |-> None]
         IN [db |-> [d EXCEPT !.books = @ \cup {row},
                              !.wishlist = {r \in @ : r.id # wi_id}],
             ret |-> TRUE]

DataStore_move_wishlist_to_books(d, wi_id, author, year) ==
    IF ~ \E r \in d.wishlist : r.id = wi_id
    THEN [db |-> d, ret |-> FALSE]
    ELSE LET w == CHOOSE r \in d.wishlist : r.id = wi_id
             row == [id |-> Rowid(d.books), title |-> w.title, author |-> author,
                     year |-> year, notes |-> w.notes, cover |-> w.cover]
         IN [db |-> [d EXCEPT !.books = @ \cup {row},
                              !.wishlist = {r \in @ : r.id # wi_id}],
             ret |-> TRUE]

\* the steps of a move at which a write can raise (a full disk, an I/O error)
MoveFailurePoints == {"book_write", "cover_copy", "wish_write"}

\* DataStore.move_wishlist_to_books when the statement at raises: the INSERT
\* (line 162) or the DELETE (line 163). Nothing is rolled back, so after a
\* failed DELETE the inserted row is in the open transaction: this connection
\* lists it at once and the next commit stores it.
DataStore_move_failing(d, wi_id, author, year, at) ==
    IF ~ \E r \in d.wishlist : r.id = wi_id
    THEN [db |-> d, ret |-> "False"]
    ELSE LET w == CHOOSE r \in d.wishlist : r.id = wi_id
             row == [id |-> Rowid(d.books), title |-> w.title, author |-> author,
                     year |-> year, notes |-> w.notes, cover |-> w.cover]
         IN IF at = "book_write" THEN [db |-> d, ret |-> "raise"]
            ELSE IF at = "wish_write"
            THEN [db |-> [d EXCEPT !.books = @ \cup {row}], ret |-> "raise"]
            ELSE [db |-> DataStore_move_wishlist_to_books(d, wi_id, author, year).db,
                  ret |-> "True"]

DataStore_set_book_cover(d, f, mode, book_id, src) ==
    IF ~ Truthy(src) \/ ~ Exists(f, src)
    THEN [db |-> d, fs |-> f, raised |-> FALSE]
    ELSE LET dest == ImagePath("book", StrOf(book_id), src.ext)
             c == StoreImage(f, mode, src, dest)
         IN IF c.raised THEN [db |-> d, fs |-> c.fs, raised |-> TRUE]
            ELSE [db |-> [d EXCEPT !.books =
                            {IF r.id = book_id THEN [r EXCEPT !.cover = dest] ELSE r
                               : r \in @}],
                  fs |-> c.fs, raised |-> FALSE]

DataStore_set_wishlist_cover(d, f, mode, wish_id, src) ==
    IF ~ Truthy(src) \/ ~ Exists(f, src)
    THEN [db |-> d, fs |-> f, raised |-> FALSE]
    ELSE LET dest == ImagePath("wish", StrOf(wish_id), src.ext)
             c == StoreImage(f, mode, src, dest)
         IN IF c.raised THEN [db |-> d, fs |-> c.fs, raised |-> TRUE]
            ELSE [db |-> [d EXCEPT !.wishlist =
                            {IF r.id = wish_id THEN [r EXCEPT !.cover = dest] ELSE r
                               : r \in @}],
                  fs |-> c.fs, raised |-> FALSE]

----------------------------------------------------------------------------
(* CSVDataStore: the flat-file backend *)

\* _read_csv: the rows below the header, every value a string
CSVDataStore_read_csv(c, file) == c[file]

\* _write_csv: the rows go to a temporary file that then replaces the file
CSVDataStore_write_csv(c, file, rows) == [c EXCEPT ![file] = rows]

\* int(r.get('id') or 0), 0 where int() raises
RowIdOrZero(r) == IF r.id = "" \/ IntOf(r.id) < 0 THEN 0 ELSE IntOf(r.id)

\* faulty variant: the next id is taken from the number of rows
CSVDataStore_next_id_count(rows) == Len(rows) + 1

CSVDataStore_next_id(rows) ==
    LET ids == {RowIdOrZero(rows[i]) : i \in 1..Len(rows)} \cup {0}
    IN SetMax(ids) + 1

\* faulty variant: the new row is written alone, the rows read are dropped
CSVDataStore_add_book_alone(c, title, author, year, notes) ==
    LET rows == CSVDataStore_read_csv(c, "books_file")
        nid == CSVDataStore_next_id(rows)
        row == [id |-> StrOf(nid), title |-> title, author |-> author,
                year |-> year, notes |-> notes, cover |-> EmptyStr]
    IN [csv |-> CSVDataStore_write_csv(c, "books_file", <<row>>),
        ret |-> nid]

CSVDataStore_add_book(c, title, author, year, notes) ==
    LET rows == CSVDataStore_read_csv(c, "books_file")
        nid == CSVDataStore_next_id(rows)
        row == [id |-> StrOf(nid), title |-> title, author |-> author,
                year |-> year, notes |-> notes, cover |-> EmptyStr]
    IN [csv |-> CSVDataStore_write_csv(c, "books_file", Append(rows, row)),
        ret |-> nid]

CSVDataStore_add_wishlist(c, title, notes) ==
    LET rows == CSVDataStore_read_csv(c, "wish_file")
        nid == CSVDataStore_next_id(rows)
        row == [id |-> StrOf(nid), title |-> title, notes |-> notes,
                cover |-> EmptyStr]
    IN [csv |-> CSVDataStore_write_csv(c, "wish_file", Append(rows, row)),
        ret |-> nid]

\* the sort key of list_books / list_wishlist: x[1].lower() if x[1] else ''
SortKey(t) == IF t # <<>> THEN Lower(t) ELSE <<>>

RECURSIVE InsertByKey(_, _)
\* x put into the sorted sequence s behind every element whose key is not larger
InsertByKey(s, x) ==
    IF s = <<>> THEN <<x>>
    ELSE IF StrLess(SortKey(x[2]), SortKey(s[1][2])) THEN <<x>> \o s
    ELSE <<s[1]>> \o InsertByKey(Tail(s), x)

RECURSIVE StableSort(_)
\* list.sort(key=...): stable, equal keys keep their order
StableSort(s) ==
    IF s = <<>> THEN <<>>
    ELSE InsertByKey(StableSort(SubSeq(s, 1, Len(s) - 1)), s[Len(s)])

\* a row whose id int() rejects is skipped
Parsable(rows) == SelectSeq(rows, LAMBDA r : IntOf(r.id) >= 0)

\* the tuple list_books / list_wishlist builds from a row: int(r['id']) and
\* the other values as they are
CsvBookTuple(r) == <<IntOf(r.id), r.title, r.author, r.year, r.notes, r.cover>>
CsvWishTuple(r) == <<IntOf(r.id), r.title, r.notes, r.cover>>

RECURSIVE CsvBookTuples(_)
CsvBookTuples(s) ==
    IF s = <<>> THEN <<>> ELSE <<CsvBookTuple(s[1])>> \o CsvBookTuples(Tail(s))

RECURSIVE CsvWishTuples(_)
CsvWishTuples(s) ==
    IF s = <<>> THEN <<>> ELSE <<CsvWishTuple(s[1])>> \o CsvWishTuples(Tail(s))

CSVDataStore_list_books(c) ==
    StableSort(CsvBookTuples(Parsable(CSVDataStore_read_csv(c, "books_file"))))

CSVDataStore_list_wishlist(c) ==
    StableSort(CsvWishTuples(Parsable(CSVDataStore_read_csv(c, "wish_file"))))

CSVDataStore_delete_book(c, book_id) ==
    LET rows == CSVDataStore_read_csv(c, "books_file")
    IN CSVDataStore_write_csv(c, "books_file",
          SelectSeq(rows, LAMBDA r : r.id # StrOf(book_id)))

\* faulty variant: the filtered wishlist rows are written to the books file
CSVDataStore_delete_wishlist_wrong_file(c, wi_id) ==
    LET rows == CSVDataStore_read_csv(c, "wish_file")
    IN CSVDataStore_write_csv(c, "books_file",
          SelectSeq(rows, LAMBDA r : r.id # StrOf(wi_id)))

CSVDataStore_delete_wishlist(c, wi_id) ==
    LET rows == CSVDataStore_read_csv(c, "wish_file")
    IN CSVDataStore_write_csv(c, "wish_file",
          SelectSeq(rows, LAMBDA r : r.id # StrOf(wi_id)))

CSVDataStore_set_book_cover(c, f, book_id, src) ==
    IF ~ Truthy(src) \/ ~ Exists(f, src)
    THEN [csv |-> c, fs |-> f, raised |-> FALSE]
    ELSE LET dest == ImagePath("book", StrOf(book_id), src.ext)
             cp == shutil_copy(f, src, dest)
             rows == CSVDataStore_read_csv(c, "books_file")
             upd == [i \in 1..Len(rows) |->
                       IF rows[i].id = StrOf(book_id)
                       THEN [rows[i] EXCEPT !.cover = dest] ELSE rows[i]]
         IN IF cp.raised THEN [csv |-> c, fs |-> f, raised |-> TRUE]
            ELSE [csv |-> CSVDataStore_write_csv(c, "books_file", upd),
                  fs |-> cp.fs, raised |-> FALSE]

\* faulty variant: after the search loop the loop variable r is used in place
\* of match, so an id that is not found moves the last row that was read
CSVDataStore_move_loop_variable(c, f, wi_id, author, year) ==
    LET wrows == CSVDataStore_read_csv(c, "wish_file")
        hits == {i \in 1..Len(wrows) : wrows[i].id = StrOf(wi_id)}
    IN IF wrows = <<>>
       THEN [csv |-> c, fs |-> f, ret |-> FALSE, nid |-> 0]
       ELSE LET match == IF hits = {} THEN wrows[Len(wrows)]
                         ELSE wrows[CHOOSE i \in hits : \A j \in hits : i <= j]
                a == CSVDataStore_add_book(c, match.title, author, year, match.notes)
                s == IF Truthy(match.cover) /\ Exists(f, match.cover)
                     THEN CSVDataStore_set_book_cover(a.csv, f, a.ret, match.cover)
                     ELSE [csv |-> a.csv, fs |-> f, raised |-> FALSE]
                rest == SelectSeq(wrows, LAMBDA r : r.id # StrOf(wi_id))
            IN [csv |-> CSVDataStore_write_csv(s.csv, "wish_file", rest),
                fs |-> s.fs, ret |-> TRUE, nid |-> a.ret]

CSVDataStore_move_wishlist_to_books(c, f, wi_id, author, year) ==
    LET wrows == CSVDataStore_read_csv(c, "wish_file")
        hits == {i \in 1..Len(wrows) : wrows[i].id = StrOf(wi_id)}
    IN IF hits = {}
       THEN [csv |-> c, fs |-> f, ret |-> FALSE, nid |-> 0]
       ELSE LET match == wrows[CHOOSE i \in hits : \A j \in hits : i <= j]
                a == CSVDataStore_add_book(c, match.title, author, year, match.notes)
                s == IF Truthy(match.cover) /\ Exists(f, match.cover)
                     THEN CSVDataStore_set_book_cover(a.csv, f, a.ret, match.cover)
                     ELSE [csv |-> a.csv, fs |-> f, raised |-> FALSE]
                rest == SelectSeq(wrows, LAMBDA r : r.id # StrOf(wi_id))
            IN [csv |-> CSVDataStore_write_csv(s.csv, "wish_file", rest),
                fs |-> s.fs, ret |-> TRUE, nid |-> a.ret]

\* CSVDataStore.move_wishlist_to_books when the step at raises: _write_csv of
\* the books file inside add_book (line 386), shutil.copy inside set_book_cover
\* (line 392, caught at line 393), or _write_csv of the wishlist file (line 397)
CSVDataStore_move_failing(c, f, wi_id, author, year, at) ==
    LET wrows == CSVDataStore_read_csv(c, "wish_file")
        hits == {i \in 1..Len(wrows) : wrows[i].id = StrOf(wi_id)}
    IN IF hits = {}
       THEN [csv |-> c, fs |-> f, ret |-> "False"]
       ELSE LET match == wrows[CHOOSE i \in hits : \A j \in hits : i <= j]
                a == CSVDataStore_add_book(c, match.title, author, year, match.notes)
                s == IF Truthy(match.cover) /\ Exists(f, match.cover) /\ at # "cover_copy"
                     THEN CSVDataStore_set_book_cover(a.csv, f, a.ret, match.cover)
                     ELSE [csv |-> a.csv, fs |-> f, raised |-> FALSE]
                rest == SelectSeq(wrows, LAMBDA r : r.id # StrOf(wi_id))
            IN IF at = "book_write" THEN [csv |-> c, fs |-> f, ret |-> "raise"]
               ELSE IF at = "wish_write"
               THEN [csv |-> s.csv, fs |-> s.fs, ret |-> "raise"]
               ELSE [csv |-> CSVDataStore_write_csv(s.csv, "wish_file", rest),
                     fs |-> s.fs, ret |-> "True"]

----------------------------------------------------------------------------
(* The storage contract on the active backend, as the App calls it *)

\* self.store.list_books() / list_wishlist() for the backend st over the
\* SQLite file d and the CSV files c
Books(st, d, c) == IF st = "sqlite" THEN DataStore_list_books(d)
                   ELSE CSVDataStore_list_books(c)

Wishlist(st, d, c) == IF st = "sqlite" THEN DataStore_list_wishlist(d)
                      ELSE CSVDataStore_list_wishlist(c)

list_books == Books(store, db, csv)
list_wishlist == Wishlist(store, db, csv)

\* the id the next add of the kind returns on the active backend
NextId(kind) ==
    IF store = "sqlite"
    THEN Rowid(IF kind = "book" THEN db.books ELSE db.wishlist)
    ELSE CSVDataStore_next_id(IF kind = "book" THEN csv.books_file ELSE csv.wish_file)

\* a call of the contract: the operation, the kind and id it names, the source
\* path handed to a set-cover, whether the id named a stored record when the
\* call was made, and what the call returned
Call(op, kind, id, src, hit, retId, ret) ==
    [op |-> op, kind |-> kind, id |-> id, src |-> src, hit |-> hit,
     retId |-> retId, ret |-> ret]

HasBook(id) == \E i \in 1..Len(list_books) : list_books[i][1] = id
HasWish(id) == \E i \in 1..Len(list_wishlist) : list_wishlist[i][1] = id

\* one more operation of the run, made by the one process of the run as a
\* whole: the file-level steps of a CSV write are not looked into
Tick ==
    /\ steps < MaxSteps
    /\ steps' = steps + 1
    /\ UNCHANGED <<dir, inode, proc, wrote>>

Issue(st, kind, id) == [issued EXCEPT ![<<st, kind>>] = @ \cup {id}]

add_book(title, author, year, notes) ==
    /\ Tick
    /\ NextId("book") <= MaxId
    /\ IF store = "sqlite"
       THEN LET r == DataStore_add_book(db, title, author, year, notes)
            IN /\ db' = r.db
               /\ csv' = csv
               /\ last' = Call("add", "book", 0, EmptyStr, FALSE, r.ret, "id")
               /\ issued' = Issue(store, "book", r.ret)
       ELSE LET r == CSVDataStore_add_book(csv, title, author, year, notes)
            IN /\ csv' = r.csv
               /\ db' = db
               /\ last' = Call("add", "book", 0, EmptyStr, FALSE, r.ret, "id")
               /\ issued' = Issue(store, "book", r.ret)
    /\ UNCHANGED <<store, fs, archive>>

add_wishlist(title, notes) ==
    /\ Tick
    /\ NextId("wish") <= MaxId
    /\ IF store = "sqlite"
       THEN LET r == DataStore_add_wishlist(db, title, notes)
            IN /\ db' = r.db
               /\ csv' = csv
               /\ last' = Call("add", "wish", 0, EmptyStr, FALSE, r.ret, "id")
               /\ issued' = Issue(store, "wish", r.ret)
       ELSE LET r == CSVDataStore_add_wishlist(csv, title, notes)
            IN /\ csv' = r.csv
               /\ db' = db
               /\ last' = Call("add", "wish", 0, EmptyStr, FALSE, r.ret, "id")
               /\ issued' = Issue(store, "wish", r.ret)
    /\ UNCHANGED <<store, fs, archive>>

delete_book(book_id) ==
    /\ Tick
    /\ IF store = "sqlite"
       THEN db' = DataStore_delete_book(db, book_id) /\ csv' = csv
       ELSE csv' = CSVDataStore_delete_book(csv, book_id) /\ db' = db
    /\ last' = Call("delete", "book", book_id, EmptyStr, HasBook(book_id), 0, "None")
    /\ UNCHANGED <<store, fs, archive, issued>>

delete_wishlist(wi_id) ==
    /\ Tick
    /\ IF store = "sqlite"
       THEN db' = DataStore_delete_wishlist(db, wi_id) /\ csv' = csv
       ELSE csv' = CSVDataStore_delete_wishlist(csv, wi_id) /\ db' = db
    /\ last' = Call("delete", "wish", wi_id, EmptyStr, HasWish(wi_id), 0, "None")
    /\ UNCHANGED <<store, fs, archive, issued>>

move_wishlist_to_books(wi_id, author, year) ==
    /\ Tick
    /\ NextId("book") <= MaxId
    /\ IF store = "sqlite"
       THEN LET r == DataStore_move_wishlist_to_books(db, wi_id, author, year)
            IN /\ db' = r.db
               /\ UNCHANGED <<csv, fs, issued>>
               /\ last' = Call("move", "wish", wi_id, EmptyStr, HasWish(wi_id), 0,
                               IF r.ret THEN "True" ELSE "False")
       ELSE LET r == CSVDataStore_move_wishlist_to_books(csv, fs, wi_id, author, year)
            IN /\ csv' = r.csv
               /\ fs' = r.fs
               /\ db' = db
               /\ issued' = IF r.ret THEN Issue(store, "book", r.nid) ELSE issued
               /\ last' = Call("move", "wish", wi_id, EmptyStr, HasWish(wi_id), 0,
                               IF r.ret THEN "True" ELSE "False")
    /\ UNCHANGED <<store, archive>>

\* the App passes the id of a listed record (self.books[idx][0]) or the id
\* add_book has just returned
set_book_cover(book_id, src, mode) ==
    /\ Tick
    /\ HasBook(book_id)
    /\ IF store = "sqlite"
       THEN LET r == DataStore_set_book_cover(db, fs, mode, book_id, src)
            IN /\ db' = r.db
               /\ fs' = r.fs
               /\ csv' = csv
               /\ last' = Call("set_cover", "book", book_id, src, TRUE, 0,
                               IF r.raised THEN "raise" ELSE "None")
       ELSE LET r == CSVDataStore_set_book_cover(csv, fs, book_id, src)
            IN /\ csv' = r.csv
               /\ fs' = r.fs
               /\ db' = db
               /\ last' = Call("set_cover", "book", book_id, src, TRUE, 0,
                               IF r.raised THEN "raise" ELSE "True")
    /\ UNCHANGED <<store, archive, issued>>

\* App.add_wishlist_dialog / change_wish_cover_selected: the call is made only
\* if hasattr(self.store, 'set_wishlist_cover'), and CSVDataStore has no such
\* method
set_wishlist_cover(wish_id, src, mode) ==
    /\ Tick
    /\ HasWish(wish_id)
    /\ IF store = "sqlite"
       THEN LET r == DataStore_set_wishlist_cover(db, fs, mode, wish_id, src)
            IN /\ db' = r.db
               /\ fs' = r.fs
               /\ last' = Call("set_cover", "wish", wish_id, src, TRUE, 0,
                               IF r.raised THEN "raise" ELSE "None")
       ELSE /\ UNCHANGED <<db, fs>>
            /\ last' = Call("set_cover", "wish", wish_id, src, TRUE, 0, "no method")
    /\ UNCHANGED <<store, csv, archive, issued>>

----------------------------------------------------------------------------
(* Migration between the backends (App.migrate_dialog) *)

RECURSIVE MigrateBooksToSqlite_uncaught(_, _, _, _, _)
\* faulty variant: no try/except around db.set_book_cover, so the first cover
\* copy that raises ends the loop
MigrateBooksToSqlite_uncaught(list, i, d, f, modes) ==
    IF i > Len(list) THEN [db |-> d, fs |-> f, ids |-> {}]
    ELSE LET b == list[i]
             a == DataStore_add_book(d, b[2], b[3], b[4], b[5])
             s == IF Truthy(b[6])
                  THEN DataStore_set_book_cover(a.db, f, modes[i], a.ret, b[6])
                  ELSE [db |-> a.db, fs |-> f, raised |-> FALSE]
             rest == IF s.raised THEN [db |-> s.db, fs |-> s.fs, ids |-> {}]
                     ELSE MigrateBooksToSqlite_uncaught(list, i + 1, s.db, s.fs, modes)
         IN [rest EXCEPT !.ids = @ \cup {a.ret}]

RECURSIVE MigrateBooksToSqlite(_, _, _, _, _)
\* lines 830-837: the loop over the CSV books, from entry i of the list on
MigrateBooksToSqlite(list, i, d, f, modes) ==
    IF i > Len(list) THEN [db |-> d, fs |-> f, ids |-> {}]
    ELSE LET b == list[i]
             a == DataStore_add_book(d, b[2], b[3], b[4], b[5])
             s == IF Truthy(b[6])
                  THEN DataStore_set_book_cover(a.db, f, modes[i], a.ret, b[6])
                  ELSE [db |-> a.db, fs |-> f, raised |-> FALSE]
             rest == MigrateBooksToSqlite(list, i + 1, s.db, s.fs, modes)
         IN [rest EXCEPT !.ids = @ \cup {a.ret}]

RECURSIVE MigrateWishlistToSqlite(_, _, _, _, _)
\* lines 839-846: the loop over the CSV wishlist
MigrateWishlistToSqlite(list, i, d, f, modes) ==
    IF i > Len(list) THEN [db |-> d, fs |-> f, ids |-> {}]
    ELSE LET w == list[i]
             a == DataStore_add_wishlist(d, w[2], w[3])
             s == IF Truthy(w[4])
                  THEN DataStore_set_wishlist_cover(a.db, f, modes[i], a.ret, w[4])
                  ELSE [db |-> a.db, fs |-> f, raised |-> FALSE]
             rest == MigrateWishlistToSqlite(list, i + 1, s.db, s.fs, modes)
         IN [rest EXCEPT !.ids = @ \cup {a.ret}]

App_migrate_csv_to_sqlite(c, d, f, modes) ==
    LET b == MigrateBooksToSqlite(CSVDataStore_list_books(c), 1, d, f, modes)
        w == MigrateWishlistToSqlite(CSVDataStore_list_wishlist(c), 1, b.db, b.fs, modes)
    IN [db |-> w.db, fs |-> w.fs, bookIds |-> b.ids, wishIds |-> w.ids]

RECURSIVE MigrateBooksToCsv(_, _, _, _)
\* lines 850-857: the loop over the SQLite books
MigrateBooksToCsv(list, i, c, f) ==
    IF i > Len(list) THEN [csv |-> c, fs |-> f, ids |-> {}]
    ELSE LET b == list[i]
             a == CSVDataStore_add_book(c, b[2], b[3], b[4], b[5])
             s == IF Truthy(b[6])
                  THEN CSVDataStore_set_book_cover(a.csv, f, a.ret, b[6])
                  ELSE [csv |-> a.csv, fs |-> f, raised |-> FALSE]
             rest == MigrateBooksToCsv(list, i + 1, s.csv, s.fs)
         IN [rest EXCEPT !.ids = @ \cup {a.ret}]

RECURSIVE MigrateWishlistToCsv(_, _, _, _)
\* lines 858-865: the loop over the SQLite wishlist; the cover goes through
\* csvs.set_book_cover(nid, cover)
MigrateWishlistToCsv(list, i, c, f) ==
    IF i > Len(list) THEN [csv |-> c, fs |-> f, ids |-> {}]
    ELSE LET w == list[i]
             a == CSVDataStore_add_wishlist(c, w[2], w[3])
             s == IF Truthy(w[4])
                  THEN CSVDataStore_set_book_cover(a.csv, f, a.ret, w[4])
                  ELSE [csv |-> a.csv, fs |-> f, raised |-> FALSE]
             rest == MigrateWishlistToCsv(list, i + 1, s.csv, s.fs)
         IN [rest EXCEPT !.ids = @ \cup {a.ret}]

App_migrate_sqlite_to_csv(d, c, f) ==
    LET b == MigrateBooksToCsv(DataStore_list_books(d), 1, c, f)
        w == MigrateWishlistToCsv(DataStore_list_wishlist(d), 1, b.csv, b.fs)
    IN [csv |-> w.csv, fs |-> w.fs, bookIds |-> b.ids, wishIds |-> w.ids]

\* every id the migration hands out stays within the bound
MigrationFits ==
    IF store = "csv"
    THEN /\ Rowid(db.books) + Len(CSVDataStore_list_books(csv)) <= MaxId + 1
         /\ Rowid(db.wishlist) + Len(CSVDataStore_list_wishlist(csv)) <= MaxId + 1
    ELSE /\ CSVDataStore_next_id(csv.books_file) + Cardinality(db.books) <= MaxId + 1
         /\ CSVDataStore_next_id(csv.wish_file) + Cardinality(db.wishlist) <= MaxId + 1

migrate_dialog(modes) ==
    /\ Tick
    /\ MigrationFits
    /\ IF store = "csv"
       THEN LET r == App_migrate_csv_to_sqlite(csv, db, fs, modes)
            IN /\ db' = r.db
               /\ fs' = r.fs
               /\ csv' = csv
               /\ issued' = [issued EXCEPT ![<<"sqlite", "book">>] = @ \cup r.bookIds,
                                           ![<<"sqlite", "wish">>] = @ \cup r.wishIds]
       ELSE LET r == App_migrate_sqlite_to_csv(db, csv, fs)
            IN /\ csv' = r.csv
               /\ fs' = r.fs
               /\ db' = db
               /\ issued' = [issued EXCEPT ![<<"csv", "book">>] = @ \cup r.bookIds,
                                           ![<<"csv", "wish">>] = @ \cup r.wishIds]
    /\ last' = Call("migrate", "all", 0, EmptyStr, FALSE, 0, "None")
    /\ UNCHANGED <<store, archive>>

----------------------------------------------------------------------------
(* Full backup: export_all / import_all and the App dialogs for the CSV store *)

\* IMAGES_DIR.glob('*'): the files of the asset directory
ImageFiles(f) == {p \in DOMAIN f : p.dir = "IMAGES_DIR"}

NoArchive == [written |-> FALSE, dbfile |-> <<>>, csvfiles |-> <<>>, images |-> <<>>]

\* lines 229-241 for the SQLite store, lines 743-749 for the CSV store: the data
\* file(s) at the root of the zip, every image under images/
App_export_all(st, d, c, f) ==
    [written |-> TRUE,
     dbfile |-> IF st = "sqlite" THEN <<d>> ELSE <<>>,
     csvfiles |-> IF st = "csv" THEN <<c>> ELSE <<>>,
     images |-> [p \in ImageFiles(f) |-> f[p]]]

\* zf.extract('images/<name>', IMAGES_DIR.parent): the file lands in the
\* directory images of the home directory
Extracted(a) ==
    [q \in {[p EXCEPT !.dir = "~/images"] : p \in DOMAIN a.images} |->
        a.images[[q EXCEPT !.dir = "IMAGES_DIR"]]]

\* lines 243-254 for the SQLite store, lines 765-771 for the CSV store
App_import_all(st, d, c, f, a) ==
    [db |-> IF st = "sqlite" /\ a.dbfile # <<>> THEN a.dbfile[1] ELSE d,
     csv |-> IF st = "csv" /\ a.csvfiles # <<>> THEN a.csvfiles[1] ELSE c,
     fs |-> Extracted(a) @@ f]

RECURSIVE SeqOf(_)
\* the elements of a set in some order (the order of a directory listing)
SeqOf(S) == IF S = {} THEN <<>>
            ELSE LET x == CHOOSE y \in S : TRUE IN <<x>> \o SeqOf(S \ {x})

Member(kind, path) == [member |-> kind, path |-> path]

RECURSIVE ImageMembers(_)
ImageMembers(paths) ==
    IF paths = <<>> THEN <<>>
    ELSE <<Member("image", paths[1])>> \o ImageMembers(Tail(paths))

\* zf.namelist(): the members in the order export wrote them, the data
\* file(s) first and the images after them
namelist(st, a) ==
    (IF st = "sqlite" /\ a.dbfile # <<>> THEN <<Member("db", EmptyStr)>> ELSE <<>>)
    \o (IF st = "csv" /\ a.csvfiles # <<>>
        THEN <<Member("books_file", EmptyStr), Member("wish_file", EmptyStr)>>
        ELSE <<>>)
    \o ImageMembers(SeqOf(DOMAIN a.images))

\* zf.extract(member, ...) of one member over the state r = [db, csv, fs]
Extract(r, e, a) ==
    IF e.member = "db" THEN [r EXCEPT !.db = a.dbfile[1]]
    ELSE IF e.member = "image"
    THEN [r EXCEPT !.fs = ([e.path EXCEPT !.dir = "~/images"] :> a.images[e.path]) @@ @]
    ELSE [r EXCEPT !.csv = [@ EXCEPT ![e.member] = a.csvfiles[1][e.member]]]

RECURSIVE ExtractFirst(_, _, _, _)
\* the loop of lines 247-251 / 766-770 over the first n members
ExtractFirst(r, names, n, a) ==
    IF n = 0 THEN r
    ELSE Extract(ExtractFirst(r, names, n - 1, a), names[n], a)

\* import_all when the extraction of member k raises (a damaged entry, a full
\* disk): the except branch returns False, the App shows "Import failed"
App_import_all_failing(st, d, c, f, a, k) ==
    LET r == ExtractFirst([db |-> d, csv |-> c, fs |-> f], namelist(st, a), k - 1, a)
    IN [db |-> r.db, csv |-> r.csv, fs |-> r.fs, ret |-> FALSE]

export_all ==
    /\ Tick
    /\ archive' = App_export_all(store, db, csv, fs)
    /\ last' = Call("export_all", "all", 0, EmptyStr, FALSE, 0, "True")
    /\ UNCHANGED <<store, db, csv, fs, issued>>

import_all ==
    /\ Tick
    /\ archive.written
    /\ LET r == App_import_all(store, db, csv, fs, archive)
       IN /\ db' = r.db
          /\ csv' = r.csv
          /\ fs' = r.fs
    /\ last' = Call("import_all", "all", 0, EmptyStr, FALSE, 0, "True")
    /\ UNCHANGED <<store, archive, issued>>

----------------------------------------------------------------------------
(* The state machine *)

\* the application processes that share the home directory
Procs == {"P1", "P2"}
\* pc: where the process stands; rows: the rows its write has been handed;
\* h: the inode its open file object writes to; ops: the operations it has run
Process(pc, rows, h, ops) == [pc |-> pc, rows |-> rows, h |-> h, ops |-> ops]
NoFiles == [data |-> 0, tmp |-> 0]

EmptyDb == [books |-> {}, wishlist |-> {}]
EmptyCsv == [books_file |-> <<>>, wish_file |-> <<>>]

Init ==
    /\ store \in Stores
    /\ db = EmptyDb
    /\ csv = EmptyCsv
    /\ fs = UserFiles
    /\ archive = NoArchive
    /\ last = Call("start", "all", 0, EmptyStr, FALSE, 0, "None")
    /\ issued = [k \in Stores \X Kinds |-> {}]
    /\ steps = 0
    /\ dir = NoFiles
    /\ inode = <<>>
    /\ proc = [p \in Procs |-> Process("idle", <<>>, 0, 0)]
    /\ wrote = {}

\* the number of passes of the longer of the two loops of a migration: one
\* cover copy, with its own outcome, for each record of the source
MigrationLen ==
    LET b == Len(list_books)
        w == Len(list_wishlist)
    IN IF b > w THEN b ELSE w

Next ==
    \/ \E t \in Titles, a \in Authors, y \in Years, n \in Notes : add_book(t, a, y, n)
    \/ \E t \in Titles, n \in Notes : add_wishlist(t, n)
    \/ \E i \in 1..MaxId : delete_book(i)
    \/ \E i \in 1..MaxId : delete_wishlist(i)
    \/ \E i \in 1..MaxId, a \in Authors, y \in Years : move_wishlist_to_books(i, a, y)
    \/ \E i \in 1..MaxId, p \in SrcPaths, m \in ModesOf(store) : set_book_cover(i, p, m)
    \/ \E i \in 1..MaxId, p \in SrcPaths, m \in ModesOf(store) : set_wishlist_cover(i, p, m)
    \/ \E modes \in [1..MigrationLen -> ModesOf(IF store = "csv" THEN "sqlite" ELSE "csv")] :
          migrate_dialog(modes)
    \/ export_all
    \/ import_all


Spec == Init /\ [][Next]_vars

----------------------------------------------------------------------------
(* Two application processes on the books file of one home directory:      *)
(* CSVDataStore._ensure_files, _read_csv and _write_csv step by step.      *)
(* A data file of this size is written by one flush when the file object   *)
(* is closed; open(..., 'w') creates the file or truncates it at once.     *)

\* what each process may run: MaxOps mutating operations
MaxOps == 1

Header == "id,title,author,year,notes,cover"

\* csv.DictReader: the first line names the fields, every other line is a row
ReadRows(lines) == IF lines = <<>> THEN <<>> ELSE Tail(lines)

\* the lines of a complete books file holding rows
FileOf(rows) == <<Header>> \o rows

\* a file object opened at offset 0 flushes its buffer over what the inode holds
Flush(old, new) == new \o SubSeq(old, Len(new) + 1, Len(old))

\* the row a books file holds from an earlier run of the application
OldRow == [id |-> "1", title |-> <<97>>, author |-> "au", year |-> "y1",
           notes |-> "n", cover |-> EmptyStr]

\* a step inside a CSV operation leaves what the run-level operations keep
FileStep == UNCHANGED <<store, db, csv, fs, archive, last, issued, steps>>

\* line 272: self.books_file.exists() holds, nothing is written
ensure_files_exists(p) ==
    /\ FileStep
    /\ proc[p].pc = "start"
    /\ dir.data # 0
    /\ proc' = [proc EXCEPT ![p].pc = "idle"]
    /\ UNCHANGED <<dir, inode, wrote>>

\* lines 272-273: the file is not there, open(self.books_file, 'w')
ensure_files_open(p) ==
    /\ FileStep
    /\ proc[p].pc \in {"start", "ensure_open"}
    /\ IF proc[p].pc = "start"
       THEN /\ dir.data = 0
            /\ proc' = [proc EXCEPT ![p].pc = "ensure_open"]
            /\ UNCHANGED <<dir, inode, wrote>>
       ELSE /\ IF dir.data = 0
               THEN /\ inode' = Append(inode, <<>>)
                    /\ dir' = [dir EXCEPT !.data = Len(inode) + 1]
                    /\ proc' = [proc EXCEPT ![p].pc = "ensure_close",
                                            ![p].h = Len(inode) + 1]
               ELSE /\ inode' = [inode EXCEPT ![dir.data] = <<>>]
                    /\ dir' = dir
                    /\ proc' = [proc EXCEPT ![p].pc = "ensure_close",
                                            ![p].h = dir.data]
            /\ wrote' = wrote \cup {<<>>}

\* lines 274-275: writeheader() and the end of the with block
ensure_files_close(p) ==
    /\ FileStep
    /\ proc[p].pc = "ensure_close"
    /\ inode' = [inode EXCEPT ![proc[p].h] = Flush(@, FileOf(<<>>))]
    /\ proc' = [proc EXCEPT ![p].pc = "idle", ![p].h = 0]
    /\ UNCHANGED <<dir, wrote>>

\* add_book, lines 313-315: read the rows, append the new one
add_book_read(p, title, author, year, notes) ==
    /\ FileStep
    /\ proc[p].pc = "idle"
    /\ proc[p].ops < MaxOps
    /\ dir.data # 0
    /\ LET rows == ReadRows(inode[dir.data])
           nid == CSVDataStore_next_id(rows)
           row == [id |-> StrOf(nid), title |-> title, author |-> author,
                   year |-> year, notes |-> notes, cover |-> EmptyStr]
       IN /\ nid <= MaxId
          /\ proc' = [proc EXCEPT ![p].pc = "write_open",
                                  ![p].rows = Append(rows, row)]
          /\ wrote' = wrote \cup {Append(rows, row)}
    /\ UNCHANGED <<dir, inode>>

\* delete_book, lines 332-333: read the rows, drop those of the id
delete_book_read(p, book_id) ==
    /\ FileStep
    /\ proc[p].pc = "idle"
    /\ proc[p].ops < MaxOps
    /\ dir.data # 0
    /\ LET rows == ReadRows(inode[dir.data])
           kept == SelectSeq(rows, LAMBDA r : r.id # StrOf(book_id))
       IN /\ proc' = [proc EXCEPT ![p].pc = "write_open", ![p].rows = kept]
          /\ wrote' = wrote \cup {kept}
    /\ UNCHANGED <<dir, inode>>

\* _write_csv, lines 288-289: open(tmp, 'w') on path.with_suffix('.tmp')
write_csv_open(p) ==
    /\ FileStep
    /\ proc[p].pc = "write_open"
    /\ IF dir.tmp = 0
       THEN /\ inode' = Append(inode, <<>>)
            /\ dir' = [dir EXCEPT !.tmp = Len(inode) + 1]
            /\ proc' = [proc EXCEPT ![p].pc = "write_close", ![p].h = Len(inode) + 1]
       ELSE /\ inode' = [inode EXCEPT ![dir.tmp] = <<>>]
            /\ dir' = dir
            /\ proc' = [proc EXCEPT ![p].pc = "write_close", ![p].h = dir.tmp]
    /\ UNCHANGED wrote

\* _write_csv, lines 294-297: the header and the rows, flushed at the end of
\* the with block
write_csv_close(p) ==
    /\ FileStep
    /\ proc[p].pc = "write_close"
    /\ inode' = [inode EXCEPT ![proc[p].h] = Flush(@, FileOf(proc[p].rows))]
    /\ proc' = [proc EXCEPT ![p].pc = "write_replace", ![p].h = 0]
    /\ UNCHANGED <<dir, wrote>>

\* _write_csv, line 298: tmp.replace(path); FileNotFoundError if another
\* process has renamed the temporary file away
write_csv_replace(p) ==
    /\ FileStep
    /\ proc[p].pc = "write_replace"
    /\ dir' = IF dir.tmp # 0 THEN [data |-> dir.tmp, tmp |-> 0] ELSE dir
    /\ proc' = [proc EXCEPT ![p].pc = "idle", ![p].rows = <<>>, ![p].ops = @ + 1]
    /\ UNCHANGED <<inode, wrote>>

\* a fresh home directory, or one whose books file holds a row
InitProcesses ==
    /\ store = "csv"
    /\ db = EmptyDb
    /\ csv = EmptyCsv
    /\ fs = UserFiles
    /\ archive = NoArchive
    /\ last = Call("start", "all", 0, EmptyStr, FALSE, 0, "None")
    /\ issued = [k \in Stores \X Kinds |-> {}]
    /\ steps = 0
    /\ \/ dir = NoFiles /\ inode = <<>> /\ wrote = {}
       \/ /\ dir = [data |-> 1, tmp |-> 0]
          /\ inode = <<FileOf(<<OldRow>>)>>
          /\ wrote = {<<OldRow>>}
    /\ proc = [p \in Procs |-> Process("start", <<>>, 0, 0)]

NextProcesses ==
    \E p \in Procs :
        \/ ensure_files_exists(p)
        \/ ensure_files_open(p)
        \/ ensure_files_close(p)
        \/ \E t \in Titles, a \in Authors, y \in Years, n \in Notes :
              add_book_read(p, t, a, y, n)
        \/ \E i \in 1..MaxId : delete_book_read(p, i)
        \/ write_csv_open(p)
        \/ write_csv_close(p)
        \/ write_csv_replace(p)

SpecProcesses == InitProcesses /\ [][NextProcesses]_vars

----------------------------------------------------------------------------
(* Properties *)

\* the records of the active backend, as the lists show them
Range(s) == {s[i] : i \in 1..Len(s)}
BookRecords == Range(list_books)
WishRecords == Range(list_wishlist)
\* the same after the step
list_books_after == Books(store', db', csv')
list_wishlist_after == Wishlist(store', db', csv')

\* C1: the id an add returns was never returned by an earlier add of the same
\* kind on that backend, whatever was deleted in between.
C1_AddNeverReusesId ==
    [][last'.op = "add" => last'.retId \notin issued[<<store, last'.kind>>]]_vars

\* C2: move_wishlist_to_books on an id of the wishlist returns True; afterwards
\* the wishlist has no record of that id, the book list is the old one plus
\* exactly one record carrying the item's title and notes and, if the item had
\* a cover, a cover naming a file of IMAGES_DIR whose bytes are those of the
\* item's cover.
C2_MoveCreatesBook ==
    [][(last'.op = "move" /\ HasWish(last'.id)) =>
         LET before == BookRecords
             after == Range(list_books_after)
             item == CHOOSE w \in WishRecords : w[1] = last'.id
             new == after \ before
         IN /\ last'.ret = "True"
            /\ ~ \E w \in Range(list_wishlist_after) : w[1] = last'.id
            /\ Len(list_books_after) = Len(list_books) + 1
            /\ before \subseteq after
            /\ Cardinality(new) = 1
            /\ \A b \in new :
                  /\ b[2] = item[2]
                  /\ b[5] = item[3]
                  /\ Truthy(item[4]) =>
                        /\ Truthy(b[6])
                        /\ b[6].dir = "IMAGES_DIR"
                        /\ Exists(fs', b[6])
                        /\ fs'[b[6]] = fs[item[4]]]_vars

\* C2 witness: an item that had a cover has been moved, and the book made from
\* it carries the cover.
C2_MovedWithCover ==
    /\ last.op = "move"
    /\ last.ret = "True"
    /\ \E b \in BookRecords :
          /\ Truthy(b[6])
          /\ b[6] = ImagePath("wish", StrOf(last.id), b[6].ext)
          /\ Exists(fs, b[6])

\* C3: move_wishlist_to_books on an id the wishlist does not hold returns
\* False and leaves the book list and the wishlist as they were.
C3_MoveUnknownId ==
    [][(last'.op = "move" /\ ~ HasWish(last'.id)) =>
         /\ last'.ret = "False"
         /\ list_books_after = list_books
         /\ list_wishlist_after = list_wishlist
         /\ db' = db
         /\ csv' = csv
         /\ fs' = fs]_vars

\* C3 witness: a move of an unknown id has been answered while books and
\* wishlist items were stored.
C3_MovedUnknown ==
    /\ last.op = "move"
    /\ ~ last.hit
    /\ last.ret = "False"
    /\ BookRecords # {}
    /\ WishRecords # {}

\* C4: a migration leaves the source as it was: the records of the active
\* backend are unchanged, and every cover file one of them references is
\* still there with the bytes it had.
C4_MigrationKeepsSource ==
    [][last'.op = "migrate" =>
         /\ list_books_after = list_books
         /\ list_wishlist_after = list_wishlist
         /\ \A b \in BookRecords :
               (Truthy(b[6]) /\ Exists(fs, b[6])) =>
                   (Exists(fs', b[6]) /\ fs'[b[6]] = fs[b[6]])
         /\ \A w \in WishRecords :
               (Truthy(w[4]) /\ Exists(fs, w[4])) =>
                   (Exists(fs', w[4]) /\ fs'[w[4]] = fs[w[4]])]_vars

\* C5: after migrating the CSV store into an empty SQLite database, every
\* source book whose cover file is on disk has a book of the same title in
\* the database whose cover is set and names a file of IMAGES_DIR.
C5_MigratedBooksHaveCover ==
    [][(last'.op = "migrate" /\ store = "csv" /\ db = [books |-> {}, wishlist |-> {}]) =>
         \A b \in BookRecords :
             (Truthy(b[6]) /\ Exists(fs, b[6])) =>
                 \E r \in db'.books :
                     /\ r.title = b[2]
                     /\ Truthy(r.cover)
                     /\ r.cover.dir = "IMAGES_DIR"
                     /\ Exists(fs', r.cover)]_vars

\* s[i] comes no later than s[j] by title, compared case-insensitively
TitlesAscend(s) ==
    \A i, j \in 1..Len(s) : i < j => ~ StrLess(Lower(s[j][2]), Lower(s[i][2]))

\* C6: list_books and list_wishlist return the stored records ordered by
\* title without regard to case, empty titles first.
C6_ListsSortedIgnoringCase ==
    /\ TitlesAscend(list_books)
    /\ TitlesAscend(list_wishlist)

\* C7: an add with an empty title writes nothing, so no stored record has an
\* empty title.
C7_NoEmptyTitle ==
    /\ \A b \in BookRecords : b[2] # <<>>
    /\ \A w \in WishRecords : w[2] # <<>>

\* C8: a set-cover with a source file that exists, on the id of a stored
\* record, leaves the file <kind>_<id><ext of the source> in IMAGES_DIR and
\* that path in the record's cover; the records of the other kind are as
\* before.
C8_SetCoverStoresFile ==
    [][(last'.op = "set_cover" /\ last'.hit /\ Exists(fs, last'.src)) =>
         LET dest == ImagePath(last'.kind, StrOf(last'.id), last'.src.ext)
         IN /\ Exists(fs', dest)
            /\ IF last'.kind = "book"
               THEN /\ \E b \in Range(list_books_after) :
                         b[1] = last'.id /\ b[6] = dest
                    /\ list_wishlist_after = list_wishlist
               ELSE /\ \E w \in Range(list_wishlist_after) :
                         w[1] = last'.id /\ w[4] = dest
                    /\ list_books_after = list_books]_vars

\* C9: a delete of an id no record of the kind has leaves the records of both
\* kinds as they were and raises nothing.
C9_DeleteUnknownId ==
    [][(last'.op = "delete" /\ ~ last'.hit) =>
         /\ last'.ret = "None"
         /\ list_books_after = list_books
         /\ list_wishlist_after = list_wishlist
         /\ db' = db
         /\ csv' = csv]_vars

\* C9 witness: a delete of an unknown id has run on a store that holds
\* records of both kinds.
C9_DeletedUnknown ==
    /\ last.op = "delete"
    /\ ~ last.hit
    /\ BookRecords # {}
    /\ WishRecords # {}

\* C10: export_all of the current state and import_all of that archive into a
\* fresh home directory give the same books, the same wishlist and the same
\* files in IMAGES_DIR.
C10_BackupRoundTrip ==
    LET a == App_export_all(store, db, csv, fs)
        r == App_import_all(store, [books |-> {}, wishlist |-> {}],
                            [books_file |-> <<>>, wish_file |-> <<>>], UserFiles, a)
    IN /\ Books(store, r.db, r.csv) = list_books
       /\ Wishlist(store, r.db, r.csv) = list_wishlist
       /\ ImageFiles(r.fs) = ImageFiles(fs)
       /\ \A p \in ImageFiles(fs) : r.fs[p] = fs[p]

\* C11: add_book with a non-empty title returns an id n; the book list then
\* holds exactly one record of id n, with the title, author, year and notes
\* given and no cover, and every record listed before is still listed as it was.
C11_AddBookListed ==
    [][(last'.op = "add" /\ last'.kind = "book") =>
          \A t \in Titles \ {<<>>}, a \in Authors, y \in Years, n \in Notes :
             add_book(t, a, y, n) =>
                LET before == list_books
                    after == list_books_after
                    new == {i \in 1..Len(after) : after[i][1] = last'.retId}
                IN /\ last'.retId >= 1
                   /\ Cardinality(new) = 1
                   /\ \A i \in new :
                         /\ after[i][2] = t
                         /\ after[i][3] = a
                         /\ after[i][4] = y
                         /\ after[i][5] = n
                         /\ ~ Truthy(after[i][6])
                   /\ Len(after) = Len(before) + 1
                   /\ Range(before) \subseteq Range(after)]_vars

\* C11 witness: a book with a non-empty title has been added to a store that
\* already held a book with a cover.
C11_AddedSecondBook ==
    /\ last.op = "add"
    /\ last.kind = "book"
    /\ Len(list_books) = 2
    /\ \E b \in BookRecords : b[1] = last.retId /\ b[2] # <<>> /\ ~ Truthy(b[6])
    /\ \E b \in BookRecords : b[1] # last.retId /\ Truthy(b[6])

\* C12: when the Pillow step of a set-cover of the SQLite backend fails, for
\* any stored record and any source file that exists, the call still returns:
\* the file <kind>_<id><ext> of IMAGES_DIR then holds the bytes of the source
\* and the record's cover is that path.
C12_FallbackCopyCompletes ==
    \A src \in DOMAIN fs :
        /\ \A b \in db.books :
              LET r == DataStore_set_book_cover(db, fs, "pil_fail", b.id, src)
                  dest == ImagePath("book", StrOf(b.id), src.ext)
              IN /\ ~ r.raised
                 /\ Exists(r.fs, dest)
                 /\ r.fs[dest] = fs[src]
                 /\ \E row \in r.db.books : row.id = b.id /\ row.cover = dest
        /\ \A w \in db.wishlist :
              LET r == DataStore_set_wishlist_cover(db, fs, "pil_fail", w.id, src)
                  dest == ImagePath("wish", StrOf(w.id), src.ext)
              IN /\ ~ r.raised
                 /\ Exists(r.fs, dest)
                 /\ r.fs[dest] = fs[src]
                 /\ \E row \in r.db.wishlist : row.id = w.id /\ row.cover = dest

\* C13: whenever the books file exists, also while one or two processes are
\* inside a write, the rows a reader gets from it are a row list some write
\* was handed (or the rows the file held at the start), never anything else.
C13_ReaderSeesWholeFile ==
    dir.data # 0 => ReadRows(inode[dir.data]) \in wrote

\* the wishlist of the backend a migration writes to
DestWishlist(st, d, c) == Wishlist(IF st = "csv" THEN "sqlite" ELSE "csv", d, c)

\* the destination's data and books as the migration leaves them: after the
\* loop over the books, and after the loop over the wishlist that follows it
MigrationStages(modes) ==
    IF store = "csv"
    THEN LET b == MigrateBooksToSqlite(CSVDataStore_list_books(csv), 1, db, fs, modes)
             w == MigrateWishlistToSqlite(CSVDataStore_list_wishlist(csv), 1,
                                          b.db, b.fs, modes)
         IN [db |-> w.db, csv |-> csv,
             books |-> DataStore_list_books(b.db),
             booksEnd |-> DataStore_list_books(w.db)]
    ELSE LET b == MigrateBooksToCsv(DataStore_list_books(db), 1, csv, fs)
             w == MigrateWishlistToCsv(DataStore_list_wishlist(db), 1, b.csv, b.fs)
         IN [db |-> db, csv |-> w.csv,
             books |-> CSVDataStore_list_books(b.csv),
             booksEnd |-> CSVDataStore_list_books(w.csv)]

\* C14: in a migration of either direction, every wishlist item of the source
\* whose cover file exists gets a destination wishlist record of its title and
\* notes with a cover set, and the loop over the wishlist leaves the books of
\* the destination, covers included, as the loop over the books left them.
C14_MigratedWishlistHasCover ==
    [][last'.op = "migrate" =>
         /\ \A w \in WishRecords :
               (Truthy(w[4]) /\ Exists(fs, w[4])) =>
                   \E r \in Range(DestWishlist(store, db', csv')) :
                       r[2] = w[2] /\ r[3] = w[3] /\ Truthy(r[4])
         /\ \E modes \in [1..MaxId -> ModesOf(IF store = "csv" THEN "sqlite" ELSE "csv")] :
               LET m == MigrationStages(modes)
               IN m.db = db' /\ m.csv = csv' /\ m.booksEnd = m.books]_vars

\* the books of the backend a migration writes to
DestBooks(st, d, c) == Books(IF st = "csv" THEN "sqlite" ELSE "csv", d, c)

\* the positions of list whose record has the fields of rec (the title and all
\* that follows it up to the cover) and an id outside old
Copies(list, rec, old) ==
    {i \in DOMAIN list :
        /\ list[i][1] \notin old
        /\ SubSeq(list[i], 2, Len(rec) - 1) = SubSeq(rec, 2, Len(rec) - 1)}

\* the ids of the records of a list
Ids(list) == {list[i][1] : i \in DOMAIN list}

\* the records of the two tables of backend st as the list operations build
\* them, before any ordering: by rowid for a table of the database, by line
\* for a CSV file
BookTable(st, d, c) ==
    IF st = "sqlite"
    THEN [i \in {r.id : r \in d.books} |->
             BookTuple(CHOOSE r \in d.books : r.id = i)]
    ELSE CsvBookTuples(Parsable(CSVDataStore_read_csv(c, "books_file")))

WishTable(st, d, c) ==
    IF st = "sqlite"
    THEN [i \in {r.id : r \in d.wishlist} |->
             WishTuple(CHOOSE r \in d.wishlist : r.id = i)]
    ELSE CsvWishTuples(Parsable(CSVDataStore_read_csv(c, "wish_file")))

\* C15: a migration in either direction runs to its end whether or not a cover
\* copy raises: the destination gains one book for every book of the source
\* and one wishlist item for every item of the source, each with the title,
\* author, year and notes of its original, and loses none it had.
C15_MigrationAddsEveryRecord ==
    [][last'.op = "migrate" =>
         LET dest == IF store = "csv" THEN "sqlite" ELSE "csv"
             srcB == BookTable(store, db, csv)
             srcW == WishTable(store, db, csv)
             oldB == BookTable(dest, db, csv)
             newB == BookTable(dest, db', csv')
             oldW == WishTable(dest, db, csv)
             newW == WishTable(dest, db', csv')
             idsB == Ids(oldB)
             idsW == Ids(oldW)
         IN /\ Cardinality(DOMAIN newB)
                  = Cardinality(DOMAIN oldB) + Cardinality(DOMAIN srcB)
            /\ Cardinality(DOMAIN newW)
                  = Cardinality(DOMAIN oldW) + Cardinality(DOMAIN srcW)
            /\ idsB \subseteq Ids(newB)
            /\ idsW \subseteq Ids(newW)
            /\ \A i \in DOMAIN srcB :
                  Cardinality(Copies(newB, srcB[i], idsB))
                     = Cardinality(Copies(srcB, srcB[i], {}))
            /\ \A i \in DOMAIN srcW :
                  Cardinality(Copies(newW, srcW[i], idsW))
                     = Cardinality(Copies(srcW, srcW[i], {}))]_vars

\* C15 witness: a migration has run in which the cover copy of the first book
\* in list order raised (its destination record has no cover although the
\* source file is there) and the book after it was added all the same.
C15_MigratedPastFailedCopy ==
    /\ last.op = "migrate"
    /\ Len(list_books) = 2
    /\ Truthy(list_books[1][6])
    /\ Exists(fs, list_books[1][6])
    /\ LET dest == DestBooks(store, db, csv)
       IN /\ Len(dest) = 2
          /\ dest[1][2] = list_books[1][2]
          /\ ~ Truthy(dest[1][6])
          /\ dest[2][2] = list_books[2][2]
          /\ dest[1][2] # dest[2][2]

\* C16: when import_all fails at member k of the archive, for any k, it
\* reports the failure and the database, the CSV files and the files on disk
\* are what they were before the call.
C16_FailedImportChangesNothing ==
    archive.written =>
        \A k \in 1..Len(namelist(store, archive)) :
            LET r == App_import_all_failing(store, db, csv, fs, archive, k)
            IN /\ r.ret = FALSE
               /\ r.db = db
               /\ r.csv = csv
               /\ r.fs = fs

\* C17: whatever step of move_wishlist_to_books fails, for any item of the
\* wishlist, the caller then finds either both lists as they were, or the
\* book list one record longer and the item gone from the wishlist.
C17_MoveAllOrNothing ==
    \A w \in WishRecords, at \in MoveFailurePoints, a \in Authors, y \in Years :
        LET d == IF store = "sqlite"
                 THEN DataStore_move_failing(db, w[1], a, y, at).db ELSE db
            c == IF store = "csv"
                 THEN CSVDataStore_move_failing(csv, fs, w[1], a, y, at).csv ELSE csv
            books == Books(store, d, c)
            wishlist == Wishlist(store, d, c)
        IN \/ books = list_books /\ wishlist = list_wishlist
           \/ /\ Len(books) = Len(list_books) + 1
              /\ \A i \in 1..Len(wishlist) : wishlist[i][1] # w[1]

\* no two rows of a table share an id, and every id is 1 or more
UniqueIds(rows) ==
    \A r \in rows : r.id >= 1 /\ \A o \in rows : o.id = r.id => o = r

\* the same for the rows of a CSV file, whose ids are decimal strings
UniqueCsvIds(rows) ==
    \A i \in 1..Len(rows) :
        /\ IntOf(rows[i].id) >= 1
        /\ \A j \in 1..Len(rows) : rows[j].id = rows[i].id => j = i

\* a row and a row of the same id, title, author, year and notes
SameRow(r, o) == \A k \in DOMAIN r \ {"cover"} : o[k] = r[k]

\* every row of before whose id is not in gone is in after under the same id
\* with the same title, author, year and notes
SameIds(before, after, gone) ==
    \A r \in before : r.id \notin gone => \E o \in after : SameRow(r, o)

\* the ids, as the backend st stores them, that an operation on the backend
\* of the program removes from a table
Gone(st, ids) ==
    IF st # store THEN {}
    ELSE IF st = "csv" THEN {StrOf(i) : i \in ids} ELSE ids

\* C18: after every step no two books and no two wishlist items share an id
\* and every id is a positive integer, in both backends; and an add, delete,
\* move or set-cover leaves every record it does not remove under the id it had.
C18_IdsUniqueAndStable ==
    /\ [](/\ UniqueIds(db.books)
          /\ UniqueIds(db.wishlist)
          /\ UniqueCsvIds(csv.books_file)
          /\ UniqueCsvIds(csv.wish_file))
    /\ [][last'.op \in {"add", "delete", "move", "set_cover"} =>
             LET goneB == IF last'.op = "delete" /\ last'.kind = "book"
                          THEN {last'.id} ELSE {}
                 goneW == IF last'.op = "move"
                             \/ (last'.op = "delete" /\ last'.kind = "wish")
                          THEN {last'.id} ELSE {}
             IN /\ SameIds(db.books, db'.books, Gone("sqlite", goneB))
                /\ SameIds(db.wishlist, db'.wishlist, Gone("sqlite", goneW))
                /\ SameIds(Range(csv.books_file), Range(csv'.books_file),
                           Gone("csv", goneB))
                /\ SameIds(Range(csv.wish_file), Range(csv'.wish_file),
                           Gone("csv", goneW))]_vars

\* C18 witness: a move has made a second book next to one that was there, and
\* a wishlist item is left.
C18_MovedNextToBook ==
    /\ last.op = "move"
    /\ last.ret = "True"
    /\ Len(list_books) = 2
    /\ list_books[1][1] # list_books[2][1]
    /\ Len(list_wishlist) = 1

\* every file of covers that is in f is in g with the same bytes
CoversKept(f, g, covers) ==
    \A p \in covers : (Truthy(p) /\ Exists(f, p)) => (Exists(g, p) /\ g[p] = f[p])

\* C19: a set-cover on one stored record, with any source file of the user,
\* leaves the bytes of the cover file of every other stored record as they
\* were, and leaves no other record with the cover path of this one.
C19_SetCoverTouchesOwnFileOnly ==
    /\ \A w \in db.wishlist, src \in DOMAIN UserFiles, mode \in PilModes :
          LET r == DataStore_set_wishlist_cover(db, fs, mode, w.id, src)
              dest == ImagePath("wish", StrOf(w.id), src.ext)
          IN /\ CoversKept(fs, r.fs, {b.cover : b \in db.books})
             /\ CoversKept(fs, r.fs, {o.cover : o \in db.wishlist \ {w}})
             /\ \A b \in r.db.books : b.cover # dest
    /\ \A b \in db.books, src \in DOMAIN UserFiles, mode \in PilModes :
          LET r == DataStore_set_book_cover(db, fs, mode, b.id, src)
              dest == ImagePath("book", StrOf(b.id), src.ext)
          IN /\ CoversKept(fs, r.fs, {o.cover : o \in db.books \ {b}})
             /\ CoversKept(fs, r.fs, {w.cover : w \in db.wishlist})
             /\ \A w \in r.db.wishlist : w.cover # dest
    /\ \A i \in 1..Len(csv.books_file), src \in DOMAIN UserFiles :
          LET rows == csv.books_file
              r == CSVDataStore_set_book_cover(csv, fs, IntOf(rows[i].id), src)
          IN /\ CoversKept(fs, r.fs, {rows[j].cover : j \in 1..Len(rows) \ {i}})
             /\ CoversKept(fs, r.fs,
                           {csv.wish_file[j].cover : j \in 1..Len(csv.wish_file)})

====
